---------------------------- MODULE Spec2Model ----------------------------
(* A model of the Math_Tutor Slack bot: the three event handlers of        *)
(* src/handlers.py (SlackEventHandlers), the text extraction they share,   *)
(* and the tool-result formatter of src/utils.py (parse_tool_response).    *)
(*                                                                         *)
(* Text is modelled character by character: a Python str is a sequence of  *)
(* one-character strings, so that substring search, re.sub, strip, join    *)
(* and the f-string templates are computed as the code computes them.      *)
EXTENDS Integers, Sequences, FiniteSets, TLC

VARIABLES
  pc,             \* position of the running handler
  handler,        \* which handler the transport dispatched to
  event,          \* body["event"] of the event being handled
  calls,          \* ChatClient and Agent calls issued for this event, in order
  user_message,   \* local user_message of the handler
  text_response,  \* local text_response of the handler
  result,         \* local result / agent_result: what the Agent returned
  exc,            \* str(e) of the exception caught by the handler's except clause
  logs,           \* logger.error lines written for this event
  messages,       \* result["messages"] of the history lookup (reaction handler)
  ex_in,          \* extract_text_from_result: argument
  ex_out,         \* extract_text_from_result: outcome
  resp_in,        \* parse_tool_response: argument
  resp_out,       \* parse_tool_response: outcome
  flt_in,         \* MATH_PATTERN.search: the text searched
  flt_out         \* MATH_PATTERN.search: whether the handler goes on

handlerVars == <<pc, handler, event, calls, user_message, text_response, result, exc, logs,
                 messages>>
extractVars == <<ex_in, ex_out>>
formatVars == <<resp_in, resp_out>>
filterVars == <<flt_in, flt_out>>
pureVars == <<ex_in, ex_out, resp_in, resp_out, flt_in, flt_out>>
vars == <<pc, handler, event, calls, user_message, text_response, result, exc, logs,
          messages, ex_in, ex_out, resp_in, resp_out, flt_in, flt_out>>

(***************************************************************************)
(* Bounds of the model.                                                    *)
(***************************************************************************)
\* Longest content-block list of an AgentResult that is enumerated.
MaxBlocks == 3
\* Number of distinct channel identifiers.
MaxChannels == 2
\* Number of distinct message timestamps.
MaxTs == 2

(***************************************************************************)
(* Python str operations on character sequences.                           *)
(***************************************************************************)
\* Outcome of a call: a returned value or a raised exception with its str().
Return(v) == [raised |-> FALSE, value |-> v, exc |-> <<>>]
Raise(m) == [raised |-> TRUE, value |-> <<>>, exc |-> m]
NotApplied == [raised |-> FALSE, value |-> <<"?">>, exc |-> <<"?">>]

\* Python `needle in hay` for strings.
Contains(hay, needle) ==
  \E i \in 1..(Len(hay) - Len(needle) + 1) : SubSeq(hay, i, i + Len(needle) - 1) = needle

\* Python sep.join(parts) for a list of strings.
RECURSIVE Join(_, _)
Join(sep, parts) ==
  IF parts = <<>> THEN <<>>
  ELSE IF Len(parts) = 1 THEN parts[1]
  ELSE parts[1] \o sep \o Join(sep, Tail(parts))

Digits == <<"0", "1", "2", "3", "4", "5", "6", "7", "8", "9">>
Digit(d) == Digits[d + 1]

\* str(n) of a non-negative int.
RECURSIVE StrInt(_)
StrInt(n) == IF n < 10 THEN <<Digit(n)>> ELSE StrInt(n \div 10) \o <<Digit(n % 10)>>

(***************************************************************************)
(* AgentResult and extract_text_from_result (src/handlers.py 43-72).       *)
(*                                                                         *)
(* An AgentResult is [shape, str, blocks]: shape "str" when result.content *)
(* is a str, "list" when it is a list, "other" when content has another    *)
(* type and "none" when the object has no content attribute.  A block is   *)
(* [isDict, hasText, isStr, text]: whether it is a dict, whether it has a  *)
(* "text" key, and whether block["text"] is a str (an int otherwise).      *)
(***************************************************************************)
IMAGE_KEY ==
  <<"i", "m", "a", "g", "e", "_", "b", "a", "s", "e", "6", "4">>
PLACEHOLDER ==
  <<"I", "'", "v", "e", " ", "g", "e", "n", "e", "r", "a", "t", "e", "d", " ", "a", " ", "p",
    "l", "o", "t", " ", "f", "o", "r", " ", "y", "o", "u", ",", " ", "b", "u", "t", " ", "I",
    " ", "c", "a", "n", "'", "t", " ", "d", "i", "s", "p", "l", "a", "y", " ", "i", "t", " ",
    "d", "i", "r", "e", "c", "t", "l", "y", " ", "i", "n", " ", "S", "l", "a", "c", "k", ".",
    " ", "H", "e", "r", "e", "'", "s", " ", "t", "h", "e", " ", "t", "e", "x", "t", "u", "a",
    "l", " ", "e", "x", "p", "l", "a", "n", "a", "t", "i", "o", "n", " ", "i", "n", "s", "t",
    "e", "a", "d", ".">>
ERROR_PREFIX ==
  <<"I", " ", "e", "n", "c", "o", "u", "n", "t", "e", "r", "e", "d", " ", "a", "n", " ", "e",
    "r", "r", "o", "r", " ", "w", "h", "i", "l", "e", " ", "p", "r", "o", "c", "e", "s", "s",
    "i", "n", "g", " ", "y", "o", "u", "r", " ", "r", "e", "q", "u", "e", "s", "t", ":", " ">>
JOIN_ERR_HEAD ==
  <<"s", "e", "q", "u", "e", "n", "c", "e", " ", "i", "t", "e", "m", " ">>
JOIN_ERR_TAIL ==
  <<":", " ", "e", "x", "p", "e", "c", "t", "e", "d", " ", "s", "t", "r", " ", "i", "n", "s",
    "t", "a", "n", "c", "e", ",", " ", "i", "n", "t", " ", "f", "o", "u", "n", "d">>

StrResult(s) == [shape |-> "str", str |-> s, blocks |-> <<>>]
ListResult(bs) == [shape |-> "list", str |-> <<>>, blocks |-> bs]
OtherResult == [shape |-> "other", str |-> <<>>, blocks |-> <<>>]
NoContentResult == [shape |-> "none", str |-> <<>>, blocks |-> <<>>]

TextBlock(t) == [isDict |-> TRUE, hasText |-> TRUE, isStr |-> TRUE, text |-> t]
IntTextBlock == [isDict |-> TRUE, hasText |-> TRUE, isStr |-> FALSE, text |-> <<"1">>]
OtherBlock == [isDict |-> TRUE, hasText |-> FALSE, isStr |-> FALSE, text |-> <<>>]
NonDictBlock == [isDict |-> FALSE, hasText |-> FALSE, isStr |-> FALSE, text |-> <<>>]

\* str(block) and str(result): the generic rendering of the object.
StrBlock(b) ==
  IF ~b.isDict THEN <<"<", "o", "b", "j", ">">>
  ELSE IF ~b.hasText THEN <<"{", "'", "o", "t", "h", "e", "r", "'", ":", " ", "1", "}">>
  ELSE <<"{", "'", "t", "e", "x", "t", "'", ":", " ">>
         \o (IF b.isStr THEN <<"'">> \o b.text \o <<"'">> ELSE b.text) \o <<"}">>

RECURSIVE StrBlocks(_)
StrBlocks(bs) ==
  IF bs = <<>> THEN <<>>
  ELSE IF Len(bs) = 1 THEN StrBlock(bs[1])
  ELSE StrBlock(bs[1]) \o <<",", " ">> \o StrBlocks(Tail(bs))

Str(r) ==
  <<"A", "g", "e", "n", "t", "R", "e", "s", "u", "l", "t", "(">>
    \o (CASE r.shape = "str" -> <<"'">> \o r.str \o <<"'">>
          [] r.shape = "list" -> <<"[">> \o StrBlocks(r.blocks) \o <<"]">>
          [] r.shape = "other" -> <<"N", "o", "n", "e">>
          [] OTHER -> <<>>)
    \o <<")">>

\* isinstance(block, Dict) and "text" in block
HasTextField(b) == b.isDict /\ b.hasText

\* the text_parts list built by the loop of lines 61-65
TextParts(r) == IF r.shape = "list" THEN SelectSeq(r.blocks, HasTextField) ELSE <<>>

\* "\n".join(text_parts): raises TypeError at the first item that is not a str.
JoinTextParts(parts) ==
  IF \E i \in 1..Len(parts) : ~parts[i].isStr
  THEN LET i == CHOOSE k \in 1..Len(parts) :
                  ~parts[k].isStr /\ \A j \in 1..(k - 1) : parts[j].isStr
       IN Raise(JOIN_ERR_HEAD \o StrInt(i - 1) \o JOIN_ERR_TAIL)
  ELSE Return(Join(<<"\n">>, [i \in 1..Len(parts) |-> parts[i].text]))

extract_text_from_result(r) ==
  IF r.shape = "str" THEN Return(r.str)
  ELSE IF TextParts(r) # <<>> THEN JoinTextParts(TextParts(r))
  ELSE Return(Str(r))

\* The inputs enumerated for the extraction.
BlockKinds ==
  {TextBlock(<<>>), TextBlock(<<"a">>), TextBlock(<<"b">>), IntTextBlock, OtherBlock,
   NonDictBlock}
BlockLists == UNION {[1..n -> BlockKinds] : n \in 0..MaxBlocks}
AgentResults ==
  {StrResult(s) : s \in {<<>>, <<"a">>, <<"a", "\n", "b">>, IMAGE_KEY}}
    \cup {ListResult(bs) : bs \in BlockLists}
    \cup {OtherResult, NoContentResult}

(***************************************************************************)
(* MATH_PATTERN (src/handlers.py 17-22): the alternatives of the regular   *)
(* expression, in its order, compiled with re.IGNORECASE.                  *)
(***************************************************************************)
MATH_PATTERN ==
  << <<"m", "a", "t", "h">>,
     <<"a", "l", "g", "o", "r", "i", "t", "h", "m">>,
     <<"c", "o", "m", "p", "l", "e", "x", "i", "t", "y">>,
     <<"b", "i", "g", " ", "o">>,
     <<"e", "q", "u", "a", "t", "i", "o", "n">>,
     <<"f", "o", "r", "m", "u", "l", "a">>,
     <<"c", "a", "l", "c", "u", "l", "u", "s">>,
     <<"l", "i", "n", "e", "a", "r", " ", "a", "l", "g", "e", "b", "r", "a">>,
     <<"s", "t", "a", "t", "i", "s", "t", "i", "c", "s">>,
     <<"p", "r", "o", "b", "a", "b", "i", "l", "i", "t", "y">>,
     <<"o", "p", "t", "i", "m", "i", "z", "a", "t", "i", "o", "n">>,
     <<"f", "u", "n", "c", "t", "i", "o", "n">>,
     <<"g", "r", "a", "p", "h">>,
     <<"p", "l", "o", "t">>,
     <<"s", "o", "l", "v", "e">>,
     <<"c", "o", "m", "p", "u", "t", "e">>,
     <<"m", "a", "t", "r", "i", "x">>,
     <<"v", "e", "c", "t", "o", "r">>,
     <<"d", "e", "r", "i", "v", "a", "t", "i", "v", "e">>,
     <<"i", "n", "t", "e", "g", "r", "a", "l">>,
     <<"t", "h", "e", "o", "r", "e", "m">>,
     <<"p", "r", "o", "o", "f">> >>

UpperLetters ==
  <<"A", "B", "C", "D", "E", "F", "G", "H", "I", "J", "K", "L", "M", 
    "N", "O", "P", "Q", "R", "S", "T", "U", "V", "W", "X", "Y", "Z">>
LowerLetters ==
  <<"a", "b", "c", "d", "e", "f", "g", "h", "i", "j", "k", "l", "m", 
    "n", "o", "p", "q", "r", "s", "t", "u", "v", "w", "x", "y", "z">>

TEXT_SOLVE ==
  <<"s", "o", "l", "v", "e", " ", "x">>
TEXT_HI ==
  <<"h", "i">>
AGENT_ERR ==
  <<"b", "o", "o", "m">>
API_ERR ==
  <<"c", "h", "a", "n", "n", "e", "l", "_", "n", "o", "t", "_", "f", "o", "u", "n", "d">>
LOG_REACTION ==
  <<"E", "r", "r", "o", "r", " ", "a", "d", "d", "i", "n", "g", " ", "r", "e", "a", "c", "t",
    "i", "o", "n", ":", " ">>
LOG_MESSAGE ==
  <<"E", "r", "r", "o", "r", " ", "p", "r", "o", "c", "e", "s", "s", "i", "n", "g", " ", "m",
    "e", "s", "s", "a", "g", "e", ":", " ">>
LOG_MENTION ==
  <<"E", "r", "r", "o", "r", " ", "p", "r", "o", "c", "e", "s", "s", "i", "n", "g", " ", "m",
    "e", "n", "t", "i", "o", "n", ":", " ">>
LOG_REACTION_EVENT ==
  <<"E", "r", "r", "o", "r", " ", "p", "r", "o", "c", "e", "s", "s", "i", "n", "g", " ", "r",
    "e", "a", "c", "t", "i", "o", "n", ":", " ">>

IsUpper(c) == \E i \in 1..Len(UpperLetters) : UpperLetters[i] = c
IsDigit(c) == \E i \in 1..Len(Digits) : Digits[i] = c

\* One character folded to lower case, as re.IGNORECASE compares ASCII letters.
LowerChar(c) ==
  IF IsUpper(c) THEN LowerLetters[CHOOSE i \in 1..Len(UpperLetters) : UpperLetters[i] = c]
  ELSE c

Lower(s) == [i \in 1..Len(s) |-> LowerChar(s[i])]

\* MATH_PATTERN.search(text) is not None
MATH_PATTERN_search(text) ==
  \E k \in 1..Len(MATH_PATTERN) : Contains(Lower(text), MATH_PATTERN[k])

\* The end of a match of <@[A-Z0-9]+> starting at position i of s, or 0.
RECURSIVE ClassRunEnd(_, _)
ClassRunEnd(s, j) ==
  IF j <= Len(s) /\ (IsUpper(s[j]) \/ IsDigit(s[j])) THEN ClassRunEnd(s, j + 1) ELSE j

MentionEnd(s, i) ==
  IF i + 1 <= Len(s) /\ s[i] = "<" /\ s[i + 1] = "@"
  THEN LET j == ClassRunEnd(s, i + 2)
       IN IF j > i + 2 /\ j <= Len(s) /\ s[j] = ">" THEN j ELSE 0
  ELSE 0

\* re.sub(r"<@[A-Z0-9]+>", "", s): every match is removed, left to right.
RECURSIVE ReSubFrom(_, _)
ReSubFrom(s, i) ==
  IF i > Len(s) THEN <<>>
  ELSE IF MentionEnd(s, i) # 0 THEN ReSubFrom(s, MentionEnd(s, i) + 1)
  ELSE <<s[i]>> \o ReSubFrom(s, i + 1)

re_sub_mention(s) == ReSubFrom(s, 1)

IsSpace(c) == c \in {" ", "\n", "\t", "\r"}

\* str.strip()
RECURSIVE LStrip(_)
LStrip(s) == IF s # <<>> /\ IsSpace(Head(s)) THEN LStrip(Tail(s)) ELSE s
RECURSIVE RStrip(_)
RStrip(s) ==
  IF s # <<>> /\ IsSpace(s[Len(s)]) THEN RStrip(SubSeq(s, 1, Len(s) - 1)) ELSE s
Strip(s) == LStrip(RStrip(s))

(***************************************************************************)
(* Events, ChatClient calls and the Agent.                                 *)
(*                                                                         *)
(* Channels and timestamps are numbered; 0 stands for a key that the event *)
(* does not carry (thread_ts, bot_id).                                     *)
(***************************************************************************)
Absent == 0
Channels == 1..MaxChannels
Timestamps == 1..MaxTs
BotUser == "UBOT"
Users == {BotUser, "U1"}
ReactionNames == {"question", "grey_question", "thumbsup"}

NoEvent ==
  [channel |-> Absent, ts |-> Absent, thread_ts |-> Absent, text |-> <<>>, bot_id |-> Absent,
   user |-> "", reaction |-> "", item_channel |-> Absent, item_ts |-> Absent]

\* no text, "hi", "solve x", "MATH", "big-O" and the question of the spec's example
MessageTexts ==
  { <<>>, TEXT_HI, TEXT_SOLVE,
    <<"M", "A", "T", "H">>,
    <<"b", "i", "g", "-", "O">>,
    <<"w", "h", "a", "t", "'", "s", " ", "t", "h", "e", " ", "t", "i", "m", "e", " ", "c", "o", "m", "p", "l", "e", "x", "i", "t", "y", " ", "o", "f", " ", "q", "u", "i", "c", "k", "_", "s", "o", "r", "t", "?">> }
\* no text, "hi", "<@U123ABC> solve x**2-4", "<@U1> ask <@U2> x", " hi <@U1>" and
\* "<@u1> <@> plot"
MentionTexts ==
  { <<>>, TEXT_HI,
    <<"<", "@", "U", "1", "2", "3", "A", "B", "C", ">", " ", "s", "o", "l", "v", "e", " ", "x", "*", "*", "2", "-", "4">>,
    <<"<", "@", "U", "1", ">", " ", "a", "s", "k", " ", "<", "@", "U", "2", ">", " ", "x">>,
    <<" ", "h", "i", " ", "<", "@", "U", "1", ">">>,
    <<"<", "@", "u", "1", ">", " ", "<", "@", ">", " ", "p", "l", "o", "t">> }

\* body["event"] of a "message" event
MessageEvents ==
  {[NoEvent EXCEPT !.channel = c, !.ts = t, !.thread_ts = th, !.text = x, !.bot_id = b] :
     c \in Channels, t \in Timestamps, th \in {Absent} \cup Timestamps,
     x \in MessageTexts, b \in {Absent, 1}}

\* body["event"] of an "app_mention" event
MentionEvents ==
  {[NoEvent EXCEPT !.channel = c, !.ts = t, !.thread_ts = th, !.text = x] :
     c \in Channels, t \in Timestamps, th \in {Absent} \cup Timestamps, x \in MentionTexts}

\* body["event"] of a "reaction_added" event; ts is the reaction's own event_ts
ReactionEvents ==
  {[NoEvent EXCEPT !.ts = t, !.user = u, !.reaction = r, !.item_channel = c, !.item_ts = it] :
     t \in Timestamps, u \in Users, r \in ReactionNames, c \in Channels, it \in Timestamps}

\* event.get("thread_ts", event["ts"])
ThreadTs(e) == IF e.thread_ts = Absent THEN e.ts ELSE e.thread_ts

NoCall ==
  [op |-> "", channel |-> Absent, ts |-> Absent, name |-> "", text |-> <<>>,
   inclusive |-> FALSE, limit |-> 0, ok |-> TRUE]

\* self.app.client.reactions_add(channel=, timestamp=, name=)
ReactionsAdd(c, t, n, ok) ==
  [NoCall EXCEPT !.op = "reactions_add", !.channel = c, !.ts = t, !.name = n, !.ok = ok]
\* self.app.client.chat_postMessage(channel=, thread_ts=, text=)
ChatPostMessage(c, th, x, ok) ==
  [NoCall EXCEPT !.op = "chat_postMessage", !.channel = c, !.ts = th, !.text = x, !.ok = ok]
\* self.app.client.conversations_history(channel=, latest=, inclusive=, limit=)
ConversationsHistory(c, t, ok) ==
  [NoCall EXCEPT !.op = "conversations_history", !.channel = c, !.ts = t,
                 !.inclusive = TRUE, !.limit = 1, !.ok = ok]
\* self.app.client.auth_test()
AuthTest(ok) == [NoCall EXCEPT !.op = "auth_test", !.ok = ok]
\* self.agent(user_message)
AgentCall(x, ok) == [NoCall EXCEPT !.op = "agent", !.text = x, !.ok = ok]

\* What the Agent can do with a query: return an AgentResult or raise.
AgentReturns ==
  {StrResult(<<"a">>), StrResult(IMAGE_KEY), ListResult(<<TextBlock(<<"a">>), OtherBlock>>),
   ListResult(<<TextBlock(<<"{">> \o IMAGE_KEY \o <<"}">>)>>), ListResult(<<IntTextBlock>>),
   NoContentResult}
AgentOutcomes == {Return(r) : r \in AgentReturns} \cup {Raise(AGENT_ERR)}

\* What conversations_history can return under limit=1: result["messages"].
\* A message is [hasText, text]; messages[0].get("text", "") reads it.
HistoryMessages ==
  {<<>>, <<[hasText |-> TRUE, text |-> TEXT_SOLVE]>>, <<[hasText |-> TRUE, text |-> TEXT_HI]>>,
   <<[hasText |-> FALSE, text |-> <<>>]>>}

\* An event is delivered to its handler when no handler is running.
Start(h, e) ==
  /\ pc = "idle"
  /\ pc' = "start"
  /\ handler' = h
  /\ event' = e
  /\ UNCHANGED <<calls, logs, user_message, text_response, result, exc, messages, pureVars>>

\* The transport dispatches an event to the handler registered for its kind
\* (register_handlers, lines 39-41).
DispatchMessage == \E e \in MessageEvents : Start("message", e)
DispatchMention == \E e \in MentionEvents : Start("mention", e)
DispatchReaction == \E e \in ReactionEvents : Start("reaction", e)

At(h, p) == handler = h /\ pc = p

\* The image check of lines 110-114.
image_check(text) == IF Contains(text, IMAGE_KEY) THEN PLACEHOLDER ELSE text

(***************************************************************************)
(* handle_message_events (src/handlers.py 74-128)                          *)
(***************************************************************************)
\* The entry without the bot_id test of lines 85-86.
MsgEntry_IgnoresBotId ==
  /\ At("message", "start")
  /\ user_message' = event.text
  /\ pc' = IF MATH_PATTERN_search(event.text) THEN "react" ELSE "returned"
  /\ UNCHANGED <<handler, event, calls, text_response, result, exc, logs, messages, pureVars>>

\* lines 82-93: the bot_id test, the locals and the keyword test
MsgEntry ==
  /\ At("message", "start")
  /\ IF event.bot_id # Absent
     THEN pc' = "returned" /\ UNCHANGED user_message
     ELSE /\ user_message' = event.text
          /\ pc' = IF MATH_PATTERN_search(event.text) THEN "react" ELSE "returned"
  /\ UNCHANGED <<handler, event, calls, text_response, result, exc, logs, messages, pureVars>>

\* lines 95-102: reactions_add in its own try
MsgReact ==
  /\ At("message", "react")
  /\ \E ok \in BOOLEAN :
       /\ calls' = Append(calls, ReactionsAdd(event.channel, event.ts, "brain", ok))
       /\ logs' = IF ok THEN logs ELSE Append(logs, LOG_REACTION \o API_ERR)
  /\ pc' = "agent"
  /\ UNCHANGED <<handler, event, user_message, text_response, result, exc, messages, pureVars>>

\* line 106: result = self.agent(user_message)
MsgAgent ==
  /\ At("message", "agent")
  /\ \E o \in AgentOutcomes :
       /\ calls' = Append(calls, AgentCall(user_message, ~o.raised))
       /\ IF o.raised
          THEN exc' = o.exc /\ pc' = "except" /\ UNCHANGED result
          ELSE result' = o.value /\ pc' = "extract" /\ UNCHANGED exc
  /\ UNCHANGED <<handler, event, user_message, text_response, logs, messages, pureVars>>

\* lines 107-114: extraction and the image check
MsgExtract ==
  /\ At("message", "extract")
  /\ LET o == extract_text_from_result(result)
     IN IF o.raised
        THEN exc' = o.exc /\ pc' = "except" /\ UNCHANGED text_response
        ELSE text_response' = image_check(o.value) /\ pc' = "post" /\ UNCHANGED exc
  /\ UNCHANGED <<handler, event, calls, user_message, result, logs, messages, pureVars>>

\* lines 117-121: the reply, inside the try
MsgPost ==
  /\ At("message", "post")
  /\ \E ok \in BOOLEAN :
       /\ calls' = Append(calls, ChatPostMessage(event.channel, ThreadTs(event),
                                                 text_response, ok))
       /\ IF ok THEN pc' = "returned" /\ UNCHANGED exc
          ELSE pc' = "except" /\ exc' = API_ERR
  /\ UNCHANGED <<handler, event, user_message, text_response, result, logs, messages, pureVars>>

\* lines 122-128: except Exception: log and post the error reply
MsgExcept ==
  /\ At("message", "except")
  /\ logs' = Append(logs, LOG_MESSAGE \o exc)
  /\ \E ok \in BOOLEAN :
       /\ calls' = Append(calls, ChatPostMessage(event.channel, ThreadTs(event),
                                                 ERROR_PREFIX \o exc, ok))
       /\ pc' = IF ok THEN "returned" ELSE "raised"
  /\ UNCHANGED <<handler, event, user_message, text_response, result, exc, messages, pureVars>>

handle_message_events ==
  MsgEntry \/ MsgReact \/ MsgAgent \/ MsgExtract \/ MsgPost \/ MsgExcept

(***************************************************************************)
(* ToolResult and parse_tool_response (src/utils.py 19-79).                *)
(*                                                                         *)
(* A ToolResult is a Python dict.  It is modelled as the set of keys it    *)
(* carries (keys) and the value under each key that it can carry; a key    *)
(* that is absent keeps a fixed value that is never read.  Floats are      *)
(* multiples of 1/32, which binary floating point represents exactly.      *)
(***************************************************************************)
Bullet == "U+2022"

ERROR_LABEL ==
  <<"E", "r", "r", "o", "r", ":", " ">>
UNKNOWN_ERROR ==
  <<"U", "n", "k", "n", "o", "w", "n", " ", "e", "r", "r", "o", "r">>
SOLUTION_LABEL ==
  <<"*", "S", "o", "l", "u", "t", "i", "o", "n", ":", "*", " ">>
STEPS_LABEL ==
  <<"*", "S", "t", "e", "p", "-", "b", "y", "-", "s", "t", "e", "p", " ", "s", "o", "l", "u",
    "t", "i", "o", "n", ":", "*", "\n">>
STATS_LABEL ==
  <<"*", "S", "t", "a", "t", "i", "s", "t", "i", "c", "a", "l", " ", "A", "n", "a", "l", "y",
    "s", "i", "s", ":", "*", "\n">>
COUNT_LABEL ==
  <<Bullet, " ", "C", "o", "u", "n", "t", ":", " ">>
MEAN_LABEL ==
  <<"\n", Bullet, " ", "M", "e", "a", "n", ":", " ">>
MEDIAN_LABEL ==
  <<"\n", Bullet, " ", "M", "e", "d", "i", "a", "n", ":", " ">>
STD_DEV_LABEL ==
  <<"\n", Bullet, " ", "S", "t", "a", "n", "d", "a", "r", "d", " ", "D", "e", "v", "i", "a", "t",
    "i", "o", "n", ":", " ">>
RANGE_LABEL ==
  <<"\n", Bullet, " ", "R", "a", "n", "g", "e", ":", " ">>
RANGE_TO ==
  <<" ", "t", "o", " ">>
IQR_LABEL ==
  <<"\n", Bullet, " ", "I", "n", "t", "e", "r", "q", "u", "a", "r", "t", "i", "l", "e", " ", "R",
    "a", "n", "g", "e", ":", " ">>
ALGORITHM_LABEL ==
  <<"*", "A", "l", "g", "o", "r", "i", "t", "h", "m", ":", "*", " ">>
TIME_HEADER ==
  <<"*", "T", "i", "m", "e", " ", "C", "o", "m", "p", "l", "e", "x", "i", "t", "y", ":", "*",
    "\n">>
BEST_LABEL ==
  <<Bullet, " ", "B", "e", "s", "t", " ", "c", "a", "s", "e", ":", " ">>
AVERAGE_LABEL ==
  <<Bullet, " ", "A", "v", "e", "r", "a", "g", "e", " ", "c", "a", "s", "e", ":", " ">>
WORST_LABEL ==
  <<Bullet, " ", "W", "o", "r", "s", "t", " ", "c", "a", "s", "e", ":", " ">>
TIME_LABEL ==
  <<"*", "T", "i", "m", "e", " ", "C", "o", "m", "p", "l", "e", "x", "i", "t", "y", ":", "*",
    " ">>
SPACE_LABEL ==
  <<"*", "S", "p", "a", "c", "e", " ", "C", "o", "m", "p", "l", "e", "x", "i", "t", "y", ":",
    "*", " ">>
UNKNOWN ==
  <<"U", "n", "k", "n", "o", "w", "n">>
STABLE_LABEL ==
  <<"*", "S", "t", "a", "b", "l", "e", ":", "*", " ">>
DESCRIPTION_LABEL ==
  <<"\n", "*", "D", "e", "s", "c", "r", "i", "p", "t", "i", "o", "n", ":", "*", "\n">>
BAD_INPUT ==
  <<"b", "a", "d", " ", "i", "n", "p", "u", "t">>
SOLUTION_TEXT ==
  <<"-", "2", ",", " ", "2">>
STEP_ONE ==
  <<"a", "=", "1">>
STEP_TWO ==
  <<"x", " ", "=", " ", "2">>
ALGORITHM_NAME ==
  <<"q", "u", "i", "c", "k", "_", "s", "o", "r", "t">>
TIME_TEXT ==
  <<"O", "(", "n", " ", "l", "o", "g", " ", "n", ")">>
SPACE_TEXT ==
  <<"O", "(", "l", "o", "g", " ", "n", ")">>
DESCRIPTION_TEXT ==
  <<"D", "i", "v", "i", "d", "e", " ", "a", "n", "d", " ", "c", "o", "n", "q", "u", "e", "r",
    ".">>


\* The characters of a key
KeyText(k) ==
  CASE k = "success" -> <<"s", "u", "c", "c", "e", "s", "s">>
    [] k = "error" -> <<"e", "r", "r", "o", "r">>
    [] k = "solution" -> <<"s", "o", "l", "u", "t", "i", "o", "n">>
    [] k = "steps" -> <<"s", "t", "e", "p", "s">>
    [] k = "count" -> <<"c", "o", "u", "n", "t">>
    [] k = "mean" -> <<"m", "e", "a", "n">>
    [] k = "median" -> <<"m", "e", "d", "i", "a", "n">>
    [] k = "std_dev" -> <<"s", "t", "d", "_", "d", "e", "v">>
    [] k = "min" -> <<"m", "i", "n">>
    [] k = "max" -> <<"m", "a", "x">>
    [] k = "iqr" -> <<"i", "q", "r">>
    [] k = "algorithm" -> <<"a", "l", "g", "o", "r", "i", "t", "h", "m">>
    [] k = "complexity" -> <<"c", "o", "m", "p", "l", "e", "x", "i", "t", "y">>
    [] k = "time" -> <<"t", "i", "m", "e">>
    [] k = "space" -> <<"s", "p", "a", "c", "e">>
    [] k = "stable" -> <<"s", "t", "a", "b", "l", "e">>
    [] k = "description" -> <<"d", "e", "s", "c", "r", "i", "p", "t", "i", "o", "n">>
    [] k = "best" -> <<"b", "e", "s", "t">>
    [] k = "average" -> <<"a", "v", "e", "r", "a", "g", "e">>
    [] OTHER -> <<"w", "o", "r", "s", "t">>

\* The keys a ToolResult can carry, in the order the dict holds them.
KeyOrder ==
  <<"success", "error", "solution", "steps", "count", "mean", "median",
    "std_dev", "min", "max", "iqr", "algorithm", "complexity">>
ComplexityKeyOrder == <<"time", "space", "stable", "description">>
TimeKeyOrder == <<"best", "average", "worst">>
Range(s) == {s[i] : i \in 1..Len(s)}

\* The floats of the statistics, in units of 1/32: 2.5, 2.5, 1.28125, 1.0, 4.0, 1.53125
StatValue(k) ==
  CASE k = "count" -> 4
    [] k = "mean" -> 80
    [] k = "median" -> 80
    [] k = "std_dev" -> 41
    [] k = "min" -> 32
    [] k = "max" -> 128
    [] OTHER -> 49

TimeText(k) ==
  CASE k = "best" -> <<"O", "(", "n", ")">>
    [] k = "average" -> <<"O", "(", "n", " ", "l", "o", "g", " ", "n", ")">>
    [] OTHER -> <<"O", "(", "n", "^", "2", ")">>

\* repr(s) of a str without quotes or escapes in it
Quoted(s) == <<"'">> \o s \o <<"'">>

\* n zero-padded to w digits
RECURSIVE Pad(_, _)
Pad(n, w) == IF w = 0 THEN <<>> ELSE Pad(n \div 10, w - 1) \o <<Digit(n % 10)>>

\* f"{x:.4f}" for x = n/32, n >= 0: round-half-even on the exact value.
\* n/32 in units of 1/10000 is n*625/2.
Fmt4(n) ==
  LET twice == n * 625
      q == twice \div 2
      r == IF twice % 2 = 1 /\ q % 2 = 1 THEN q + 1 ELSE q
  IN StrInt(r \div 10000) \o <<".">> \o Pad(r % 10000, 4)

\* digits with the trailing zeros dropped, one digit kept
RECURSIVE DropZeros(_)
DropZeros(s) ==
  IF Len(s) > 1 /\ s[Len(s)] = "0" THEN DropZeros(SubSeq(s, 1, Len(s) - 1)) ELSE s

\* repr(x) for the float x = n/32, n >= 0: its exact decimal expansion.
ReprFloat(n) ==
  StrInt(n \div 32) \o <<".">> \o DropZeros(Pad((n % 32) * 3125, 5))

\* str(KeyError(k))
KeyError(k) == Raise(Quoted(KeyText(k)))

\* ", ".join(parts)
CommaJoin(parts) == Join(<<",", " ">>, parts)

\* str(d) of the dict under "time"
StrTimeDict(tk) ==
  <<"{">> \o CommaJoin([i \in 1..Len(SelectSeq(TimeKeyOrder, LAMBDA k : k \in tk)) |->
          LET k == SelectSeq(TimeKeyOrder, LAMBDA kk : kk \in tk)[i]
          IN Quoted(KeyText(k)) \o <<":", " ">> \o Quoted(TimeText(k))]) \o <<"}">>

\* str(v) of the value under "time": a str or a dict
StrTime(c) == IF c.timeIsDict THEN StrTimeDict(c.timeKeys) ELSE c.timeStr
ReprTime(c) == IF c.timeIsDict THEN StrTimeDict(c.timeKeys) ELSE Quoted(c.timeStr)

ReprComplexityValue(c, k) ==
  CASE k = "time" -> ReprTime(c)
    [] k = "space" -> Quoted(SPACE_TEXT)
    [] k = "stable" -> (IF c.stable THEN <<"T", "r", "u", "e">> ELSE <<"F", "a", "l", "s", "e">>)
    [] OTHER -> Quoted(DESCRIPTION_TEXT)

\* str(d) of the dict under "complexity"
StrComplexity(c) ==
  <<"{">> \o CommaJoin([i \in 1..Len(SelectSeq(ComplexityKeyOrder, LAMBDA k : k \in c.keys)) |->
          LET k == SelectSeq(ComplexityKeyOrder, LAMBDA kk : kk \in c.keys)[i]
          IN Quoted(KeyText(k)) \o <<":", " ">> \o ReprComplexityValue(c, k)]) \o <<"}">>

ReprValue(r, k) ==
  CASE k = "success" -> (IF r.success THEN <<"T", "r", "u", "e">> ELSE <<"F", "a", "l", "s", "e">>)
    [] k = "error" -> Quoted(r.error)
    [] k = "solution" -> Quoted(r.solution)
    [] k = "steps" ->
         <<"[">> \o CommaJoin([i \in 1..Len(r.steps) |-> Quoted(r.steps[i])]) \o <<"]">>
    [] k = "count" -> StrInt(StatValue(k))
    [] k = "algorithm" -> Quoted(r.algorithm)
    [] k = "complexity" -> StrComplexity(r.complexity)
    [] OTHER -> ReprFloat(StatValue(k))

\* str(response): line 79
StrDict(r) ==
  <<"{">> \o CommaJoin([i \in 1..Len(SelectSeq(KeyOrder, LAMBDA k : k \in r.keys)) |->
          LET k == SelectSeq(KeyOrder, LAMBDA kk : kk \in r.keys)[i]
          IN Quoted(KeyText(k)) \o <<":", " ">> \o ReprValue(r, k)]) \o <<"}">>

\* lines 36-39: the numbered steps
RECURSIVE NumberedSteps(_, _)
NumberedSteps(steps, i) ==
  IF i > Len(steps) THEN <<>>
  ELSE StrInt(i) \o <<".", " ">> \o steps[i] \o <<"\n">> \o NumberedSteps(steps, i + 1)

\* lines 34-41
FormatSolution(r) ==
  Return(SOLUTION_LABEL \o r.solution \o <<"\n", "\n">>
           \o (IF "steps" \in r.keys /\ r.steps # <<>>
               THEN STEPS_LABEL \o NumberedSteps(r.steps, 1)
               ELSE <<>>))

\* The keys the f-string of lines 45-53 reads, in the order it reads them.
StatsReadOrder == <<"count", "mean", "median", "std_dev", "min", "max", "iqr">>

FirstMissing(order, ks) ==
  order[CHOOSE i \in 1..Len(order) : order[i] \notin ks /\ \A j \in 1..(i - 1) : order[j] \in ks]

\* lines 45-53
FormatStatistics(r) ==
  IF \E k \in Range(StatsReadOrder) : k \notin r.keys
  THEN KeyError(FirstMissing(StatsReadOrder, r.keys))
  ELSE Return(STATS_LABEL
                \o COUNT_LABEL \o StrInt(StatValue("count"))
                \o MEAN_LABEL \o Fmt4(StatValue("mean"))
                \o MEDIAN_LABEL \o Fmt4(StatValue("median"))
                \o STD_DEV_LABEL \o Fmt4(StatValue("std_dev"))
                \o RANGE_LABEL \o Fmt4(StatValue("min")) \o RANGE_TO
                \o Fmt4(StatValue("max"))
                \o IQR_LABEL \o Fmt4(StatValue("iqr")))

\* lines 57-76
FormatComplexity(r) ==
  LET complexity == r.complexity
  IN IF "algorithm" \notin r.keys THEN KeyError("algorithm")
     ELSE IF "time" \in complexity.keys /\ complexity.timeIsDict
               /\ \E k \in Range(TimeKeyOrder) : k \notin complexity.timeKeys
     THEN KeyError(FirstMissing(TimeKeyOrder, complexity.timeKeys))
     ELSE Return(
       ALGORITHM_LABEL \o r.algorithm \o <<"\n", "\n">>
         \o (IF "time" \in complexity.keys /\ complexity.timeIsDict
             THEN TIME_HEADER
                    \o BEST_LABEL \o TimeText("best") \o <<"\n">>
                    \o AVERAGE_LABEL \o TimeText("average") \o <<"\n">>
                    \o WORST_LABEL \o TimeText("worst") \o <<"\n">>
             ELSE TIME_LABEL
                    \o (IF "time" \in complexity.keys THEN StrTime(complexity) ELSE UNKNOWN)
                    \o <<"\n">>)
         \o SPACE_LABEL
         \o (IF "space" \in complexity.keys THEN SPACE_TEXT ELSE UNKNOWN) \o <<"\n">>
         \o (IF "stable" \in complexity.keys
             THEN STABLE_LABEL \o (IF complexity.stable THEN <<"Y", "e", "s">> ELSE <<"N", "o">>) \o <<"\n">>
             ELSE <<>>)
         \o (IF "description" \in complexity.keys
             THEN DESCRIPTION_LABEL \o DESCRIPTION_TEXT
             ELSE <<>>))

\* line 29: not response.get("success", False)
Failed(r) == ~("success" \in r.keys /\ r.success)

\* line 30
FormatError(r) ==
  Return(ERROR_LABEL \o (IF "error" \in r.keys THEN r.error ELSE UNKNOWN_ERROR))

\* The chain with the statistics test ahead of the solution test.
Branch_MeanFirst(r) ==
  IF Failed(r) THEN 1
  ELSE IF "mean" \in r.keys THEN 3
  ELSE IF "solution" \in r.keys THEN 2
  ELSE IF "complexity" \in r.keys THEN 4
  ELSE 5

\* The branch of the if/elif chain that runs: 1 error, 2 solution,
\* 3 statistics, 4 complexity, 5 str(response).
Branch(r) ==
  IF Failed(r) THEN 1
  ELSE IF "solution" \in r.keys THEN 2
  ELSE IF "mean" \in r.keys THEN 3
  ELSE IF "complexity" \in r.keys THEN 4
  ELSE 5

parse_tool_response(r) ==
  CASE Branch(r) = 1 -> FormatError(r)
    [] Branch(r) = 2 -> FormatSolution(r)
    [] Branch(r) = 3 -> FormatStatistics(r)
    [] Branch(r) = 4 -> FormatComplexity(r)
    [] OTHER -> Return(StrDict(r))

(***************************************************************************)
(* The ToolResults and AgentResults the pure functions are applied to.     *)
(***************************************************************************)
NoComplexity ==
  [keys |-> {}, timeIsDict |-> FALSE, timeStr |-> <<>>, timeKeys |-> {}, stable |-> FALSE]

\* The records a "complexity" key can hold: the full record of the tool, a
\* time given as one string, records lacking keys, and an empty dict.
Complexities ==
  { [NoComplexity EXCEPT !.keys = {"time", "space", "stable", "description"},
                         !.timeIsDict = TRUE, !.timeKeys = Range(TimeKeyOrder),
                         !.stable = TRUE],
    [NoComplexity EXCEPT !.keys = {"time", "space", "stable"},
                         !.timeIsDict = TRUE, !.timeKeys = Range(TimeKeyOrder)],
    [NoComplexity EXCEPT !.keys = {"time"}, !.timeStr = TIME_TEXT],
    [NoComplexity EXCEPT !.keys = {"time", "space"}, !.timeIsDict = TRUE,
                         !.timeKeys = {"average", "worst"}],
    [NoComplexity EXCEPT !.keys = {"time"}, !.timeIsDict = TRUE],
    NoComplexity }

NoResponse ==
  [keys |-> {}, success |-> FALSE, error |-> <<>>, solution |-> <<>>, steps |-> <<>>,
   algorithm |-> <<>>, complexity |-> NoComplexity]

MainKeys ==
  {"success", "error", "solution", "steps", "mean", "algorithm", "complexity"}
StatCompanions == {"count", "median", "std_dev", "min", "max", "iqr"}

\* Every subset of the keys; the companions of "mean" vary freely when the
\* map carries "mean" and are all present or all absent when it does not.
KeySets ==
  UNION { {m \cup c : c \in (IF "mean" \in m THEN SUBSET StatCompanions
                                               ELSE {{}, StatCompanions})} :
          m \in SUBSET MainKeys }

\* The dict with the keys ks, success s, steps st and complexity c.
ToolResult(ks, s, st, c) ==
  [keys |-> ks,
   success |-> s,
   error |-> IF "error" \in ks THEN BAD_INPUT ELSE <<>>,
   solution |-> IF "solution" \in ks THEN SOLUTION_TEXT ELSE <<>>,
   steps |-> st,
   algorithm |-> IF "algorithm" \in ks THEN ALGORITHM_NAME ELSE <<>>,
   complexity |-> c]

InitHandlers ==
  /\ pc = "idle"
  /\ handler = "none"
  /\ event = NoEvent
  /\ calls = <<>>
  /\ logs = <<>>
  /\ user_message = <<>>
  /\ text_response = <<>>
  /\ result = NoContentResult
  /\ exc = <<>>
  /\ messages = <<>>

InitExtract == ex_in = NoContentResult /\ ex_out = NotApplied
InitFormat == resp_in = NoResponse /\ resp_out = NotApplied
InitFilter == flt_in = <<>> /\ flt_out = "unset"

(***************************************************************************)
(* SpecExtract: extract_text_from_result applied to an AgentResult.        *)
(***************************************************************************)
ExtractInit ==
  /\ InitHandlers
  /\ InitFormat
  /\ InitFilter
  /\ ex_in \in AgentResults
  /\ ex_out = NotApplied

Extract ==
  /\ ex_out = NotApplied
  /\ ex_out' = extract_text_from_result(ex_in)
  /\ UNCHANGED <<handlerVars, formatVars, filterVars, ex_in>>

SpecExtract == ExtractInit /\ [][Extract]_vars

(***************************************************************************)
(* SpecFormat: parse_tool_response applied to a ToolResult.                *)
(***************************************************************************)
FormatInit ==
  /\ InitHandlers
  /\ InitExtract
  /\ InitFilter
  /\ \E ks \in KeySets :
       \E s \in (IF "success" \in ks THEN BOOLEAN ELSE {FALSE}),
          st \in (IF "steps" \in ks THEN {<<>>, <<STEP_ONE, STEP_TWO>>} ELSE {<<>>}),
          c \in (IF "complexity" \in ks THEN Complexities ELSE {NoComplexity}) :
         resp_in = ToolResult(ks, s, st, c)
  /\ resp_out = NotApplied

Format ==
  /\ resp_out = NotApplied
  /\ resp_out' = parse_tool_response(resp_in)
  /\ UNCHANGED <<handlerVars, extractVars, filterVars, resp_in>>

SpecFormat == FormatInit /\ [][Format]_vars

(***************************************************************************)
(* SpecFilter: the keyword test of handle_message_events (line 93) applied *)
(* to a text.                                                              *)
(***************************************************************************)
\* One character folded to upper case.
UpperChar(c) ==
  IF \E i \in 1..Len(LowerLetters) : LowerLetters[i] = c
  THEN UpperLetters[CHOOSE i \in 1..Len(LowerLetters) : LowerLetters[i] = c]
  ELSE c

Upper(s) == [i \in 1..Len(s) |-> UpperChar(s[i])]

\* The words the texts are built from: the alternatives of the pattern and
\* the spellings "big-O", "big-o", "bigO" and "big  o".
FilterWords ==
  Range(MATH_PATTERN)
    \cup { <<"b", "i", "g", "-", "O">>,
           <<"b", "i", "g", "-", "o">>,
           <<"b", "i", "g", "O">>,
           <<"b", "i", "g", " ", " ", "o">> }

\* Every word on its own, in upper case, and inside a sentence; and texts
\* that hold no word: "", "hi", "mat h", "so lve", "hello world".
FilterTexts ==
  {w : w \in FilterWords}
    \cup {Upper(w) : w \in FilterWords}
    \cup {<<"a", " ">> \o w \o <<"?">> : w \in FilterWords}
    \cup { <<>>, TEXT_HI,
         <<"m", "a", "t", " ", "h">>,
         <<"s", "o", " ", "l", "v", "e">>,
         <<"h", "e", "l", "l", "o", " ", "w", "o", "r", "l", "d">> }

FilterInit ==
  /\ InitHandlers
  /\ InitExtract
  /\ InitFormat
  /\ flt_in \in FilterTexts
  /\ flt_out = "unset"

\* line 93: if MATH_PATTERN.search(user_message)
Filter ==
  /\ flt_out = "unset"
  /\ flt_out' = IF MATH_PATTERN_search(flt_in) THEN "accept" ELSE "reject"
  /\ UNCHANGED <<handlerVars, extractVars, formatVars, flt_in>>

SpecFilter == FilterInit /\ [][Filter]_vars

(***************************************************************************)
(* handle_app_mentions (src/handlers.py 130-163)                           *)
(***************************************************************************)
\* lines 138-144: the locals and the removal of the mention
MenEntry ==
  /\ At("mention", "start")
  /\ user_message' = Strip(re_sub_mention(event.text))
  /\ pc' = "agent"
  /\ UNCHANGED <<handler, event, calls, text_response, result, exc, logs, messages, pureVars>>

\* line 148: result = self.agent(user_message)
MenAgent ==
  /\ At("mention", "agent")
  /\ \E o \in AgentOutcomes :
       /\ calls' = Append(calls, AgentCall(user_message, ~o.raised))
       /\ IF o.raised
          THEN exc' = o.exc /\ pc' = "except" /\ UNCHANGED result
          ELSE result' = o.value /\ pc' = "extract" /\ UNCHANGED exc
  /\ UNCHANGED <<handler, event, user_message, text_response, logs, messages, pureVars>>

\* line 149: text_response = self.extract_text_from_result(result)
MenExtract ==
  /\ At("mention", "extract")
  /\ LET o == extract_text_from_result(result)
     IN IF o.raised
        THEN exc' = o.exc /\ pc' = "except" /\ UNCHANGED text_response
        ELSE text_response' = o.value /\ pc' = "post" /\ UNCHANGED exc
  /\ UNCHANGED <<handler, event, calls, user_message, result, logs, messages, pureVars>>

\* lines 152-156: the reply, inside the try
MenPost ==
  /\ At("mention", "post")
  /\ \E ok \in BOOLEAN :
       /\ calls' = Append(calls, ChatPostMessage(event.channel, ThreadTs(event),
                                                 text_response, ok))
       /\ IF ok THEN pc' = "returned" /\ UNCHANGED exc
          ELSE pc' = "except" /\ exc' = API_ERR
  /\ UNCHANGED <<handler, event, user_message, text_response, result, logs, messages, pureVars>>

\* The except clause that only logs, as the reaction handler's does.
MenExcept_LogOnly ==
  /\ At("mention", "except")
  /\ logs' = Append(logs, LOG_MENTION \o exc)
  /\ pc' = "returned"
  /\ UNCHANGED <<handler, event, calls, user_message, text_response, result, exc, messages, pureVars>>

\* lines 157-163: except Exception: log and post the error reply
MenExcept ==
  /\ At("mention", "except")
  /\ logs' = Append(logs, LOG_MENTION \o exc)
  /\ \E ok \in BOOLEAN :
       /\ calls' = Append(calls, ChatPostMessage(event.channel, ThreadTs(event),
                                                 ERROR_PREFIX \o exc, ok))
       /\ pc' = IF ok THEN "returned" ELSE "raised"
  /\ UNCHANGED <<handler, event, user_message, text_response, result, exc, messages, pureVars>>

handle_app_mentions == MenEntry \/ MenAgent \/ MenExtract \/ MenPost \/ MenExcept

(***************************************************************************)
(* handle_reaction_added (src/handlers.py 165-207)                         *)
(***************************************************************************)
\* lines 173-180: auth_test, outside any try, then the two filters
RxEntry ==
  /\ At("reaction", "start")
  /\ \E ok \in BOOLEAN :
       /\ calls' = Append(calls, AuthTest(ok))
       /\ pc' = IF ~ok THEN "raised"
                ELSE IF event.user = BotUser THEN "returned"
                ELSE IF event.reaction \in {"question", "grey_question"} THEN "history"
                ELSE "returned"
  /\ UNCHANGED <<handler, event, user_message, text_response, result, exc, logs, messages, pureVars>>

\* lines 186-194: the history lookup and the test of result["messages"]
RxHistory ==
  /\ At("reaction", "history")
  /\ \/ /\ calls' = Append(calls, ConversationsHistory(event.item_channel, event.item_ts, FALSE))
        /\ exc' = API_ERR
        /\ pc' = "except"
        /\ UNCHANGED <<user_message, messages>>
     \/ \E ms \in HistoryMessages :
          /\ messages' = ms
          /\ calls' = Append(calls, ConversationsHistory(event.item_channel, event.item_ts, TRUE))
          /\ IF Len(ms) > 0
             THEN /\ user_message' = IF ms[1].hasText THEN ms[1].text ELSE <<>>
                  /\ pc' = "agent"
             ELSE pc' = "returned" /\ UNCHANGED user_message
          /\ UNCHANGED exc
  /\ UNCHANGED <<handler, event, text_response, result, logs, pureVars>>

\* line 197: agent_result = self.agent(user_message)
RxAgent ==
  /\ At("reaction", "agent")
  /\ \E o \in AgentOutcomes :
       /\ calls' = Append(calls, AgentCall(user_message, ~o.raised))
       /\ IF o.raised
          THEN exc' = o.exc /\ pc' = "except" /\ UNCHANGED result
          ELSE result' = o.value /\ pc' = "extract" /\ UNCHANGED exc
  /\ UNCHANGED <<handler, event, user_message, text_response, logs, messages, pureVars>>

\* line 198: text_response = self.extract_text_from_result(agent_result)
RxExtract ==
  /\ At("reaction", "extract")
  /\ LET o == extract_text_from_result(result)
     IN IF o.raised
        THEN exc' = o.exc /\ pc' = "except" /\ UNCHANGED text_response
        ELSE text_response' = o.value /\ pc' = "post" /\ UNCHANGED exc
  /\ UNCHANGED <<handler, event, calls, user_message, result, logs, messages, pureVars>>

\* The reply threaded at the reaction event's own timestamp.
RxPost_EventTs ==
  /\ At("reaction", "post")
  /\ \E ok \in BOOLEAN :
       /\ calls' = Append(calls, ChatPostMessage(event.item_channel, event.ts,
                                                 text_response, ok))
       /\ IF ok THEN pc' = "returned" /\ UNCHANGED exc
          ELSE pc' = "except" /\ exc' = API_ERR
  /\ UNCHANGED <<handler, event, user_message, text_response, result, logs, messages, pureVars>>

\* lines 201-205: the reply, threaded at the reacted-to message
RxPost ==
  /\ At("reaction", "post")
  /\ \E ok \in BOOLEAN :
       /\ calls' = Append(calls, ChatPostMessage(event.item_channel, event.item_ts,
                                                 text_response, ok))
       /\ IF ok THEN pc' = "returned" /\ UNCHANGED exc
          ELSE pc' = "except" /\ exc' = API_ERR
  /\ UNCHANGED <<handler, event, user_message, text_response, result, logs, messages, pureVars>>

\* The except clause of the other two handlers: log and post an error reply.
RxExcept_Replies ==
  /\ At("reaction", "except")
  /\ logs' = Append(logs, LOG_REACTION_EVENT \o exc)
  /\ \E ok \in BOOLEAN :
       /\ calls' = Append(calls, ChatPostMessage(event.item_channel, event.item_ts,
                                                 ERROR_PREFIX \o exc, ok))
       /\ pc' = IF ok THEN "returned" ELSE "raised"
  /\ UNCHANGED <<handler, event, user_message, text_response, result, exc, messages, pureVars>>

\* lines 206-207: except Exception: log only
RxExcept ==
  /\ At("reaction", "except")
  /\ logs' = Append(logs, LOG_REACTION_EVENT \o exc)
  /\ pc' = "returned"
  /\ UNCHANGED <<handler, event, calls, user_message, text_response, result, exc, messages, pureVars>>

handle_reaction_added == RxEntry \/ RxHistory \/ RxAgent \/ RxExtract \/ RxPost \/ RxExcept

(***************************************************************************)
(* The event loop: one event is handled at a time; nothing is kept from    *)
(* one event to the next.                                                  *)
(***************************************************************************)
\* The handler has returned or raised to the transport: its locals are gone.
Discard ==
  /\ pc \in {"returned", "raised"}
  /\ pc' = "idle"
  /\ handler' = "none"
  /\ event' = NoEvent
  /\ calls' = <<>>
  /\ logs' = <<>>
  /\ user_message' = <<>>
  /\ text_response' = <<>>
  /\ result' = NoContentResult
  /\ exc' = <<>>
  /\ messages' = <<>>
  /\ UNCHANGED pureVars

Init == InitHandlers /\ InitExtract /\ InitFormat /\ InitFilter

Next ==
  \/ DispatchMessage
  \/ DispatchMention
  \/ DispatchReaction
  \/ handle_message_events
  \/ handle_app_mentions
  \/ handle_reaction_added
  \/ Discard

Spec == Init /\ [][Next]_vars

(***************************************************************************)
(* Properties of the handlers, read off the call log of the event.         *)
(***************************************************************************)
Done == pc \in {"returned", "raised"}

CallsOf(op) == {i \in 1..Len(calls) : calls[i].op = op}
Posts == CallsOf("chat_postMessage")
Reacts == CallsOf("reactions_add")
AgentCalls == CallsOf("agent")
Lookups == CallsOf("conversations_history")

\* A plain message the handler acts on: not self-originated, text matching.
ActionableMessage ==
  handler = "message" /\ event.bot_id = Absent /\ MATH_PATTERN_search(event.text)

\* The Agent call of this event raised, or the extraction of its result did.
AgentRaised == \E i \in AgentCalls : ~calls[i].ok
ExtractRaised ==
  /\ \E i \in AgentCalls : calls[i].ok
  /\ pc \notin {"extract"}
  /\ extract_text_from_result(result).raised

\* C1: for every plain message that is not self-originated and whose text
\* matches the vocabulary, the handler issues exactly one reactions_add
\* (name "brain", at the event's ts) and, after it, exactly one
\* chat_postMessage, sent to the event's channel in the thread thread_ts if
\* the event carries one and else ts; in every execution.
C1_OneReactThenOnePost ==
  (ActionableMessage /\ Done) =>
    /\ Cardinality(Reacts) = 1
    /\ Cardinality(Posts) = 1
    /\ \A i \in Reacts : \A j \in Posts :
         /\ i < j
         /\ calls[i].channel = event.channel /\ calls[i].ts = event.ts
         /\ calls[i].name = "brain"
         /\ calls[j].channel = event.channel /\ calls[j].ts = ThreadTs(event)

ReplyCall(i) ==
  /\ calls[i].op = "chat_postMessage"
  /\ calls[i].channel = event.channel
  /\ calls[i].ts = ThreadTs(event)
C3_ErrorReply ==
  ((ActionableMessage \/ handler = "mention") /\ Done) =>
    /\ (AgentRaised \/ ExtractRaised) =>
         /\ exc = (IF AgentRaised THEN AGENT_ERR ELSE extract_text_from_result(result).exc)
         /\ \E i \in Posts : ReplyCall(i) /\ calls[i].text = ERROR_PREFIX \o exc
         /\ \A i \in Posts : \A j \in AgentCalls : j < i
    /\ \E i \in Posts :
         /\ ReplyCall(i)
         /\ \/ calls[i].text = ERROR_PREFIX \o exc
            \/ ~AgentRaised /\ ~ExtractRaised /\ calls[i].text = text_response

\* The extraction raised in the mention handler and the error reply is out.
C3_Witness ==
  /\ handler = "mention" /\ Done /\ ExtractRaised /\ event.thread_ts # Absent
  /\ \E i \in Posts : calls[i].text = ERROR_PREFIX \o JOIN_ERR_HEAD \o <<"0">> \o JOIN_ERR_TAIL

\* C4: no chat_postMessage of any handler carries raw image data: when the
\* text extracted from the Agent's result contains image_base64, the text
\* posted is the placeholder, never the extracted text.
C4_NoRawImagePosted ==
  \A i \in Posts :
    /\ ~Contains(calls[i].text, IMAGE_KEY)
    /\ (~extract_text_from_result(result).raised
          /\ Contains(extract_text_from_result(result).value, IMAGE_KEY)
          /\ i = CHOOSE k \in Posts : \A l \in Posts : k <= l)
         => calls[i].text = PLACEHOLDER

\* A reaction the handler acts on, the identity lookup having returned.
ActionableReaction ==
  /\ handler = "reaction"
  /\ calls # <<>> /\ calls[1].op = "auth_test" /\ calls[1].ok
  /\ event.user # BotUser
  /\ event.reaction \in {"question", "grey_question"}

LookupReturnedMessage == (\E i \in Lookups : calls[i].ok) /\ messages # <<>>

OneLookup ==
  /\ Cardinality(Lookups) = 1
  /\ \A i \in Lookups :
       /\ calls[i].channel = event.item_channel /\ calls[i].ts = event.item_ts
       /\ calls[i].inclusive /\ calls[i].limit = 1

OneAgentCallWithMessageText ==
  /\ Cardinality(AgentCalls) = 1
  /\ \A i \in AgentCalls :
       calls[i].text = (IF messages[1].hasText THEN messages[1].text ELSE <<>>)

OneThreadedPost ==
  /\ Cardinality(Posts) = 1
  /\ \A i \in Posts :
       /\ \A j \in AgentCalls : j < i
       /\ calls[i].channel = event.item_channel
       /\ calls[i].ts = event.item_ts

\* C5 as stated: for every reaction by another user named question or
\* grey_question there is exactly one history lookup (channel and ts of the
\* reacted-to message, inclusive, limit 1); when it returns a message the
\* Agent is invoked exactly once with that message's text and exactly one
\* chat_postMessage follows, in the item's channel, threaded at item.ts.
C5_AsStated ==
  (ActionableReaction /\ Done) =>
    /\ OneLookup
    /\ LookupReturnedMessage => (OneAgentCallWithMessageText /\ OneThreadedPost)

\* C5 amended: as above, but the chat_postMessage follows only when the
\* Agent call and the extraction return; when either raises, the Agent has
\* been invoked once and no chat_postMessage is made.
C5_LookupAgentPost ==
  (ActionableReaction /\ Done) =>
    /\ OneLookup
    /\ LookupReturnedMessage =>
         /\ OneAgentCallWithMessageText
         /\ IF AgentRaised \/ ExtractRaised THEN Posts = {} ELSE OneThreadedPost

\* A reply threaded at item.ts where the reaction's own ts differs from it.
C5_Witness ==
  /\ ActionableReaction /\ Done /\ LookupReturnedMessage
  /\ event.ts # event.item_ts
  /\ \E i \in Posts : calls[i].ok /\ calls[i].ts = event.item_ts

\* C6: in the reaction handler an error raised by the history lookup, the
\* Agent, the extraction or the post is logged only: once it is caught no
\* chat_postMessage is made, so the only post an errored event can hold is
\* the failed call that was the error, and nothing is called after it.
C6_ReactionErrorsLoggedOnly ==
  (handler = "reaction" /\ exc # <<>>) =>
    /\ \A i \in Posts : ~calls[i].ok /\ i = Len(calls)
    /\ \A i \in 1..Len(calls) : ~calls[i].ok => i = Len(calls)
    /\ pc \in {"except", "returned"}
    /\ pc = "returned" => logs = <<LOG_REACTION_EVENT \o exc>>

\* The Agent raised in the reaction handler and the handler has returned.
C6_Witness ==
  handler = "reaction" /\ pc = "returned" /\ AgentRaised /\ exc = AGENT_ERR /\ Posts = {}

\* The event text with its leading mention token removed, then trimmed.
LeadingMentionRemoved(s) ==
  Strip(IF MentionEnd(LStrip(s), 1) # 0
        THEN SubSeq(LStrip(s), MentionEnd(LStrip(s), 1) + 1, Len(LStrip(s)))
        ELSE s)

\* C9: every mention event is actionable: the Agent is invoked exactly once,
\* no reactions_add is made, and the query passed to the Agent is the event
\* text with the leading mention token removed and the surrounding
\* whitespace trimmed, the rest of the text unchanged.
C9_MentionQuery ==
  (handler = "mention" /\ Done) =>
    /\ Cardinality(AgentCalls) = 1
    /\ Reacts = {}
    /\ \A i \in AgentCalls : calls[i].text = LeadingMentionRemoved(event.text)

\* C12: a failure of a ChatClient call (reactions_add, chat_postMessage,
\* conversations_history, auth_test) is never fatal: no handler lets an
\* exception propagate to the transport, and the Agent is invoked at most
\* once per event.
C12_ClientFailureNeverFatal ==
  /\ pc # "raised"
  /\ Cardinality(AgentCalls) <= 1

(***************************************************************************)
(* Properties of extract_text_from_result, checked under SpecExtract.      *)
(***************************************************************************)
\* The extraction as the specification words it: a plain string unchanged;
\* for a sequence, the text fields of the elements that have one, in order,
\* joined by newlines; the rendering of the whole result when neither shape
\* applies or when that concatenation is empty.
ReferenceExtract(r) ==
  LET withText == IF r.shape = "list"
                  THEN SelectSeq(r.blocks, LAMBDA b : b.hasText)
                  ELSE <<>>
      joined == Join(<<"\n">>, [i \in 1..Len(withText) |-> withText[i].text])
  IN IF r.shape = "str" THEN r.str
     ELSE IF joined = <<>> THEN Str(r)
     ELSE joined

\* An AgentResult of the data model: every text field holds a string.
WellTyped(r) == \A i \in 1..Len(r.blocks) : r.blocks[i].hasText => r.blocks[i].isStr

\* C7: extract_text_from_result equals the reference function on every
\* AgentResult, and no input makes it raise.
C7_ExtractEqualsReference ==
  (ex_out # NotApplied /\ WellTyped(ex_in)) =>
    (~ex_out.raised /\ ex_out.value = ReferenceExtract(ex_in))

(***************************************************************************)
(* Properties of parse_tool_response, checked under SpecFormat.            *)
(***************************************************************************)
\* The rules of the dispatch whose condition a map meets, and the first.
MatchingRules(r) ==
  (IF "success" \in r.keys /\ ~r.success THEN {1} ELSE {})
    \cup (IF "solution" \in r.keys THEN {2} ELSE {})
    \cup (IF "mean" \in r.keys THEN {3} ELSE {})
    \cup (IF "complexity" \in r.keys THEN {4} ELSE {})
    \cup {5}
FirstRule(r) == CHOOSE n \in MatchingRules(r) : \A m \in MatchingRules(r) : n <= m

StartsWith(s, p) == Len(s) >= Len(p) /\ SubSeq(s, 1, Len(p)) = p

\* C8: parse_tool_response applies the first rule that matches, in the
\* order error, solution, statistics, complexity, generic: a failed result
\* is exactly "Error: " + error ("Error: Unknown error" without an error
\* key) whatever other keys it has; a successful map is formatted by the
\* earliest of the solution, statistics and complexity formats whose key it
\* carries, and by str(response) when it carries none.
C8_FirstMatchingRule ==
  (resp_out # NotApplied /\ "success" \in resp_in.keys) =>
    CASE FirstRule(resp_in) = 1 ->
           resp_out = Return(ERROR_LABEL \o (IF "error" \in resp_in.keys
                                             THEN resp_in.error
                                             ELSE UNKNOWN_ERROR))
      [] FirstRule(resp_in) = 2 ->
           /\ resp_out = FormatSolution(resp_in)
           /\ StartsWith(resp_out.value, SOLUTION_LABEL \o resp_in.solution)
      [] FirstRule(resp_in) = 3 ->
           /\ resp_out = FormatStatistics(resp_in)
           /\ ~resp_out.raised => StartsWith(resp_out.value, STATS_LABEL)
      [] FirstRule(resp_in) = 4 ->
           /\ resp_out = FormatComplexity(resp_in)
           /\ ~resp_out.raised => StartsWith(resp_out.value, ALGORITHM_LABEL)
      [] OTHER -> resp_out = Return(StrDict(resp_in))

\* A successful map with both solution and mean has been formatted, as a
\* solution.
C8_Witness ==
  /\ resp_out # NotApplied
  /\ {"success", "solution", "mean", "complexity"} \subseteq resp_in.keys
  /\ resp_in.success
  /\ StartsWith(resp_out.value, SOLUTION_LABEL)

\* A map that carries every key one of the known success shapes reads.
FullShape(r) ==
  \/ "solution" \in r.keys
  \/ {"mean", "count", "median", "std_dev", "min", "max", "iqr"} \subseteq r.keys
  \/ /\ {"complexity", "algorithm"} \subseteq r.keys
     /\ ("time" \in r.complexity.keys /\ r.complexity.timeIsDict)
          => r.complexity.timeKeys = {"best", "average", "worst"}

\* C10: parse_tool_response never raises: for every map with success true,
\* whatever other keys are present, it returns a string, and a map that
\* does not fully match a known shape gets the generic dump of the map.
C10_NeverRaises ==
  (resp_out # NotApplied /\ "success" \in resp_in.keys /\ resp_in.success) =>
    /\ ~resp_out.raised
    /\ ~FullShape(resp_in) => resp_out = Return(StrDict(resp_in))

(***************************************************************************)
(* Properties of the keyword filter, checked under SpecFilter.             *)
(***************************************************************************)
\* The vocabulary as the specification lists it.
VOCABULARY ==
  { <<"m", "a", "t", "h">>,
    <<"a", "l", "g", "o", "r", "i", "t", "h", "m">>,
    <<"c", "o", "m", "p", "l", "e", "x", "i", "t", "y">>,
    <<"e", "q", "u", "a", "t", "i", "o", "n">>,
    <<"f", "o", "r", "m", "u", "l", "a">>,
    <<"c", "a", "l", "c", "u", "l", "u", "s">>,
    <<"s", "t", "a", "t", "i", "s", "t", "i", "c", "s">>,
    <<"p", "r", "o", "b", "a", "b", "i", "l", "i", "t", "y">>,
    <<"m", "a", "t", "r", "i", "x">>,
    <<"v", "e", "c", "t", "o", "r">>,
    <<"d", "e", "r", "i", "v", "a", "t", "i", "v", "e">>,
    <<"i", "n", "t", "e", "g", "r", "a", "l">>,
    <<"t", "h", "e", "o", "r", "e", "m">>,
    <<"p", "r", "o", "o", "f">>,
    <<"g", "r", "a", "p", "h">>,
    <<"p", "l", "o", "t">>,
    <<"s", "o", "l", "v", "e">>,
    <<"c", "o", "m", "p", "u", "t", "e">>,
    <<"f", "u", "n", "c", "t", "i", "o", "n">>,
    <<"b", "i", "g", "-", "O">>,
    <<"l", "i", "n", "e", "a", "r", " ", "a", "l", "g", "e", "b", "r", "a">>,
    <<"o", "p", "t", "i", "m", "i", "z", "a", "t", "i", "o", "n">> }

\* The text contains a term of the vocabulary, compared case-insensitively.
ContainsTerm(text) == \E w \in VOCABULARY : Contains(Lower(text), Lower(w))

\* C11: the keyword filter accepts a text if and only if the text contains,
\* compared case-insensitively, at least one term of the vocabulary; every
\* term on its own is accepted and a text containing none is rejected.
C11_FilterIsVocabulary ==
  (flt_out # "unset") => ((flt_out = "accept") <=> ContainsTerm(flt_in))

=============================================================================
